---- MODULE Spec2Model ----
(***************************************************************************)
(* Model of package mongoboiler (client.go): the Collection wrapper over   *)
(* the MongoDB Go driver.  The state is the wrapped server-side collection *)
(* and what the caller observed from the latest wrapper call.  Every       *)
(* wrapper method is one action; the driver call it forwards to is an      *)
(* operator with the driver's documented behaviour, and a driver failure   *)
(* is an input of the action.                                              *)
(***************************************************************************)
EXTENDS Integers, Sequences, FiniteSets

VARIABLES coll, nextId, last

vars == <<coll, nextId, last>>

\* ---------------------------------------------------------------- bounds
\* Largest identifier the driver hands out (inserts stop after it).
MaxId == 3
\* Largest number of documents held by the collection.
MaxDocs == 3
\* Longest batch given to InsertMany.
MaxBatch == 2

\* ---------------------------------------------------------------- values
Nil == "nil"
\* An error produced by a failing driver call (network, timeout, write error).
ErrDriver == "ErrDriver"
\* mongo.ErrNoDocuments, produced by SingleResult.Decode when nothing matched.
ErrNoDocuments == "ErrNoDocuments"

Names == {"a", "b"}

\* The "" the insert wrappers return in place of an identifier on failure.
NoId == 0

\* bson.D filters: bson.D{} , bson.D{{"name", x}} , bson.D{{"_id", k}}.
FilterAll == [kind |-> "all", name |-> "", id |-> NoId]
FilterName(x) == [kind |-> "name", name |-> x, id |-> NoId]
FilterId(k) == [kind |-> "id", name |-> "", id |-> k]
Filters == {FilterAll} \cup {FilterName(x) : x \in Names} \cup {FilterId(k) : k \in 1..MaxId}
NoFilter == [kind |-> "none", name |-> "", id |-> NoId]

\* The caller's struct (zero value and a value left over from earlier use).
ZeroStruct == [ID |-> NoId, Name |-> ""]
StaleStruct == [ID |-> NoId, Name |-> "stale"]
\* The caller's slice handed to FindMany: empty, or already holding an element
\* (a bson.D decoded by an earlier call).
StaleElem == <<[Key |-> "_id", Value |-> NoId], [Key |-> "name", Value |-> "stale"]>>
Structs == {ZeroStruct, StaleStruct}
Slices == {<<>>, <<StaleElem>>}

\* ---------------------------------------------------------------- driver
\* Whether stored document d satisfies filter f.
Matches(d, f) ==
    \/ f.kind = "all"
    \/ f.kind = "name" /\ d.name = f.name
    \/ f.kind = "id" /\ d._id = f.id

\* The stored documents matching f, in the store's order.
Matching(c, f) == SelectSeq(c, LAMBDA d : Matches(d, f))

\* Decoding of a stored document into the caller's struct (bson tags _id, name).
DecodeStruct(d) == [ID |-> d._id, Name |-> d.name]

\* Decoding of a stored document through *interface{}: an ordered bson.D.
DecodeD(d) == <<[Key |-> "_id", Value |-> d._id], [Key |-> "name", Value |-> d.name]>>

\* Marshalling of the caller's value into a stored document with identifier k.
Marshal(new, k) == [_id |-> k, name |-> new.name]

\* mongo.Collection.Drop
drvDrop(c, fault) ==
    IF fault # Nil THEN [coll |-> c, err |-> fault]
    ELSE [coll |-> <<>>, err |-> Nil]

\* mongo.Collection.FindOne(...).Decode(res)
drvFindOneDecode(c, filter, res, fault) ==
    LET m == Matching(c, filter) IN
    IF fault # Nil THEN [res |-> res, err |-> fault]
    ELSE IF m = <<>> THEN [res |-> res, err |-> ErrNoDocuments]
    ELSE [res |-> DecodeStruct(m[1]), err |-> Nil]

\* A cursor: the batch it will yield, the position after which Next gives up
\* with a terminal error (-1: never), the position whose Decode fails (0: none).
NilCursor == [nil |-> TRUE, batch |-> <<>>, failAfter |-> -1, badAt |-> 0]

\* The ways a multi-document read over n documents can fail in the driver.
NoFault == [kind |-> "none", at |-> 0]
FindFaults(n) ==
    {NoFault, [kind |-> "find", at |-> 0]}
        \cup {[kind |-> "decode", at |-> k] : k \in 1..n}
        \cup {[kind |-> "cursor", at |-> k] : k \in 0..n}

\* mongo.Collection.Find: (nil, err) on failure, else an open cursor.
drvFind(c, filter, fault) ==
    IF fault.kind = "find" THEN [cursor |-> NilCursor, err |-> ErrDriver]
    ELSE [cursor |-> [nil |-> FALSE, batch |-> Matching(c, filter),
                      failAfter |-> IF fault.kind = "cursor" THEN fault.at ELSE -1,
                      badAt |-> IF fault.kind = "decode" THEN fault.at ELSE 0],
          err |-> Nil]

\* mongo.Cursor.Next, asked for the i-th document.
curNext(cur, i) ==
    /\ i <= Len(cur.batch)
    /\ cur.failAfter = -1 \/ i <= cur.failAfter

\* mongo.Cursor.Err, after n documents were yielded.
curErr(cur, n) ==
    IF cur.failAfter # -1 /\ n >= cur.failAfter THEN ErrDriver ELSE Nil

\* mongo.Cursor.Decode of the i-th document into *interface{}.
curDecode(cur, i) ==
    IF cur.badAt = i THEN [doc |-> <<>>, err |-> ErrDriver]
    ELSE [doc |-> DecodeD(cur.batch[i]), err |-> Nil]

\* The positions of c matching filter; the first of them for the *One calls.
MatchIdx(c, filter) == {i \in 1..Len(c) : Matches(c[i], filter)}
FirstIdx(c, filter) ==
    LET idx == MatchIdx(c, filter) IN
    IF idx = {} THEN {} ELSE {CHOOSE i \in idx : \A j \in idx : i <= j}

\* Server-side $set of name on the documents at positions target.
applyUpdate(c, target, update, fault) ==
    IF fault # Nil THEN [coll |-> c, matched |-> 0, modified |-> 0, err |-> fault]
    ELSE [coll |-> [i \in 1..Len(c) |->
                       IF i \in target THEN [c[i] EXCEPT !.name = update.name] ELSE c[i]],
          matched |-> Cardinality(target),
          modified |-> Cardinality({i \in target : c[i].name # update.name}),
          err |-> Nil]

\* mongo.Collection.UpdateOne
drvUpdateOne(c, filter, update, fault) == applyUpdate(c, FirstIdx(c, filter), update, fault)

\* mongo.Collection.UpdateMany
drvUpdateMany(c, filter, update, fault) == applyUpdate(c, MatchIdx(c, filter), update, fault)

\* mongo.Collection.InsertOne: the driver generates identifier k.
drvInsertOne(c, new, k, fault) ==
    IF fault # Nil THEN [coll |-> c, id |-> NoId, err |-> fault]
    ELSE [coll |-> Append(c, Marshal(new, k)), id |-> k, err |-> Nil]

\* mongo.Collection.InsertMany (ordered): failAt is the position of the first
\* document the server rejects (0: none); the ones before it are inserted.
drvInsertMany(c, news, k, failAt) ==
    LET n == IF failAt = 0 THEN Len(news) ELSE failAt - 1
        added == [i \in 1..n |-> Marshal(news[i], k + i - 1)]
    IN [coll |-> c \o added,
        ids |-> [i \in 1..n |-> k + i - 1],
        err |-> IF failAt = 0 THEN Nil ELSE ErrDriver]

\* Server-side removal of the documents at positions target.
applyDelete(c, target, fault) ==
    IF fault # Nil THEN [coll |-> c, err |-> fault]
    ELSE LET kept == SelectSeq([i \in 1..Len(c) |-> [d |-> c[i], keep |-> i \notin target]],
                               LAMBDA e : e.keep)
         IN [coll |-> [i \in 1..Len(kept) |-> kept[i].d], err |-> Nil]

\* mongo.Collection.DeleteOne
drvDeleteOne(c, filter, fault) == applyDelete(c, FirstIdx(c, filter), fault)

\* mongo.Collection.DeleteMany
drvDeleteMany(c, filter, fault) == applyDelete(c, MatchIdx(c, filter), fault)

\* ---------------------------------------------------------------- wrapper
\* Collection.Drop with the driver's error dropped on the floor.
DropSwallow(c, fault) == [coll |-> drvDrop(c, fault).coll, err |-> Nil]

\* Collection.Drop
Drop(c, fault) == drvDrop(c, fault)

\* Collection.FindOne with the error of Decode ignored.
FindOneSwallow(c, filter, res, fault) ==
    LET r == drvFindOneDecode(c, filter, res, fault) IN
    [res |-> r.res, err |-> Nil, derr |-> r.err]

\* Collection.FindOne handing the driver an empty filter.
FindOneNoFilter(c, filter, res, fault) ==
    LET r == drvFindOneDecode(c, FilterAll, res, fault) IN
    IF r.err # Nil THEN [res |-> r.res, err |-> r.err, derr |-> r.err]
    ELSE [res |-> r.res, err |-> Nil, derr |-> r.err]

\* Collection.FindOne
FindOne(c, filter, res, fault) ==
    LET r == drvFindOneDecode(c, filter, res, fault) IN
    IF r.err # Nil THEN [res |-> r.res, err |-> r.err, derr |-> r.err]
    ELSE [res |-> r.res, err |-> Nil, derr |-> r.err]

\* The loop of Collection.FindMany putting each document in front of the result.
RECURSIVE FindManyLoopPrepend(_, _, _, _)
FindManyLoopPrepend(cur, i, res, err) ==
    IF curNext(cur, i)
    THEN LET d == curDecode(cur, i) IN
         IF d.err # Nil
         THEN [res |-> res, err |-> d.err, derr |-> d.err, closes |-> 0]
         ELSE FindManyLoopPrepend(cur, i + 1, <<d.doc>> \o res, err)
    ELSE IF curErr(cur, i - 1) # Nil
         THEN [res |-> res, err |-> err, derr |-> curErr(cur, i - 1), closes |-> 0]
         ELSE [res |-> res, err |-> Nil, derr |-> Nil, closes |-> 1]

\* The loop of Collection.FindMany from the i-th document on; err is the
\* error variable assigned from Find.
RECURSIVE FindManyLoop(_, _, _, _)
FindManyLoop(cur, i, res, err) ==
    IF curNext(cur, i)
    THEN LET d == curDecode(cur, i) IN
         IF d.err # Nil
         THEN [res |-> res, err |-> d.err, derr |-> d.err, closes |-> 0]
         ELSE FindManyLoop(cur, i + 1, Append(res, d.doc), err)
    ELSE IF curErr(cur, i - 1) # Nil
         THEN [res |-> res, err |-> err, derr |-> curErr(cur, i - 1), closes |-> 0]
         ELSE [res |-> res, err |-> Nil, derr |-> Nil, closes |-> 1]

\* Collection.FindMany: the error of Find is not looked at, so a failed Find
\* leaves a nil cursor whose Next panics.
FindMany(c, filter, res, fault) ==
    LET f == drvFind(c, filter, fault) IN
    IF f.cursor.nil
    THEN [res |-> res, err |-> Nil, derr |-> f.err, closes |-> 0,
          opened |-> FALSE, panicked |-> TRUE]
    ELSE LET r == FindManyLoop(f.cursor, 1, res, f.err) IN
         [res |-> r.res, err |-> r.err, derr |-> r.derr, closes |-> r.closes,
          opened |-> TRUE, panicked |-> FALSE]

\* Collection.UpdateOne
UpdateOne(c, filter, update, fault) ==
    LET r == drvUpdateOne(c, filter, update, fault) IN
    IF r.err # Nil THEN [coll |-> r.coll, matched |-> 0, modified |-> 0, err |-> r.err]
    ELSE [coll |-> r.coll, matched |-> r.matched, modified |-> r.modified, err |-> Nil]

\* Collection.UpdateMany forwarding to the driver's UpdateOne.
UpdateManyAsOne(c, filter, update, fault) ==
    LET r == drvUpdateOne(c, filter, update, fault) IN
    IF r.err # Nil THEN [coll |-> r.coll, matched |-> 0, modified |-> 0, err |-> r.err]
    ELSE [coll |-> r.coll, matched |-> r.matched, modified |-> r.modified, err |-> Nil]

\* Collection.UpdateMany
UpdateMany(c, filter, update, fault) ==
    LET r == drvUpdateMany(c, filter, update, fault) IN
    IF r.err # Nil THEN [coll |-> r.coll, matched |-> 0, modified |-> 0, err |-> r.err]
    ELSE [coll |-> r.coll, matched |-> r.matched, modified |-> r.modified, err |-> Nil]

\* Collection.InsertOne
InsertOne(c, new, k, fault) ==
    LET r == drvInsertOne(c, new, k, fault) IN
    IF r.err # Nil THEN [coll |-> r.coll, id |-> NoId, err |-> r.err]
    ELSE [coll |-> r.coll, id |-> r.id, err |-> Nil]

\* Collection.InsertMany
InsertMany(c, news, k, failAt) ==
    LET r == drvInsertMany(c, news, k, failAt) IN
    IF r.err # Nil THEN [coll |-> r.coll, ids |-> <<>>, err |-> r.err]
    ELSE [coll |-> r.coll, ids |-> r.ids, err |-> Nil]

\* Collection.DeleteOne with the driver's error dropped on the floor.
DeleteOneSwallow(c, filter, fault) ==
    [coll |-> drvDeleteOne(c, filter, fault).coll, err |-> Nil]

\* Collection.DeleteOne
DeleteOne(c, filter, fault) ==
    LET r == drvDeleteOne(c, filter, fault) IN
    IF r.err # Nil THEN [coll |-> r.coll, err |-> r.err]
    ELSE [coll |-> r.coll, err |-> Nil]

\* Collection.DeleteMany forwarding to the driver's DeleteOne.
DeleteManyAsOne(c, filter, fault) ==
    LET r == drvDeleteOne(c, filter, fault) IN
    IF r.err # Nil THEN [coll |-> r.coll, err |-> r.err]
    ELSE [coll |-> r.coll, err |-> Nil]

\* Collection.DeleteMany
DeleteMany(c, filter, fault) ==
    LET r == drvDeleteMany(c, filter, fault) IN
    IF r.err # Nil THEN [coll |-> r.coll, err |-> r.err]
    ELSE [coll |-> r.coll, err |-> Nil]

\* ---------------------------------------------------------------- observations
\* What the caller saw of one wrapper call: its arguments, what it returned or
\* left in the caller's containers, and (for the record) the error the driver
\* reported (derr), the injected read fault and the collection's size when the
\* call began (size0).
Blank ==
    [op |-> "NewCollection", filter |-> NoFilter, name |-> "", batch |-> <<>>,
     one0 |-> ZeroStruct, one |-> ZeroStruct, many0 |-> <<>>, many |-> <<>>,
     fault |-> NoFault, size0 |-> 0,
     derr |-> Nil, err |-> Nil, panicked |-> FALSE,
     opened |-> FALSE, closes |-> 0,
     matched |-> 0, modified |-> 0, id |-> NoId, ids |-> <<>>]

Init ==
    /\ coll = <<>>
    /\ nextId = 1
    /\ last = Blank

DoDrop ==
    \E fault \in {Nil, ErrDriver} :
        LET r == Drop(coll, fault) IN
        /\ coll' = r.coll
        /\ last' = [Blank EXCEPT !.op = "Drop", !.size0 = Len(coll), !.derr = fault, !.err = r.err]
        /\ UNCHANGED nextId

DoFindOne ==
    \E filter \in Filters, res \in Structs, fault \in {Nil, ErrDriver} :
        LET r == FindOne(coll, filter, res, fault) IN
        /\ last' = [Blank EXCEPT !.op = "FindOne", !.size0 = Len(coll), !.filter = filter, !.one0 = res,
                                 !.one = r.res, !.derr = r.derr, !.err = r.err]
        /\ UNCHANGED <<coll, nextId>>

DoFindMany ==
    \E filter \in Filters, res \in Slices :
        \E fault \in FindFaults(Len(Matching(coll, filter))) :
            LET r == FindMany(coll, filter, res, fault) IN
            /\ last' = [Blank EXCEPT !.op = "FindMany", !.size0 = Len(coll), !.fault = fault, !.filter = filter, !.many0 = res,
                                     !.many = r.res, !.derr = r.derr, !.err = r.err,
                                     !.panicked = r.panicked, !.opened = r.opened,
                                     !.closes = r.closes]
            /\ UNCHANGED <<coll, nextId>>

DoUpdateOne ==
    \E filter \in Filters, x \in Names, fault \in {Nil, ErrDriver} :
        LET r == UpdateOne(coll, filter, [name |-> x], fault) IN
        /\ coll' = r.coll
        /\ last' = [Blank EXCEPT !.op = "UpdateOne", !.size0 = Len(coll), !.filter = filter, !.name = x,
                                 !.matched = r.matched, !.modified = r.modified,
                                 !.derr = fault, !.err = r.err]
        /\ UNCHANGED nextId

DoUpdateMany ==
    \E filter \in Filters, x \in Names, fault \in {Nil, ErrDriver} :
        LET r == UpdateMany(coll, filter, [name |-> x], fault) IN
        /\ coll' = r.coll
        /\ last' = [Blank EXCEPT !.op = "UpdateMany", !.size0 = Len(coll), !.filter = filter, !.name = x,
                                 !.matched = r.matched, !.modified = r.modified,
                                 !.derr = fault, !.err = r.err]
        /\ UNCHANGED nextId

DoInsertOne ==
    /\ nextId <= MaxId
    /\ Len(coll) < MaxDocs
    /\ \E x \in Names, fault \in {Nil, ErrDriver} :
        LET r == InsertOne(coll, [name |-> x], nextId, fault) IN
        /\ coll' = r.coll
        /\ nextId' = IF fault = Nil THEN nextId + 1 ELSE nextId
        /\ last' = [Blank EXCEPT !.op = "InsertOne", !.size0 = Len(coll), !.name = x, !.id = r.id,
                                 !.derr = fault, !.err = r.err]

DoInsertMany ==
    \E n \in 1..MaxBatch :
        /\ nextId + n - 1 <= MaxId
        /\ Len(coll) + n <= MaxDocs
        /\ \E xs \in [1..n -> Names], failAt \in 0..n :
            LET news == [i \in 1..n |-> [name |-> xs[i]]]
                r == InsertMany(coll, news, nextId, failAt)
            IN
            /\ coll' = r.coll
            /\ nextId' = nextId + (Len(r.coll) - Len(coll))
            /\ last' = [Blank EXCEPT !.op = "InsertMany", !.size0 = Len(coll), !.batch = xs, !.ids = r.ids,
                                     !.derr = IF failAt = 0 THEN Nil ELSE ErrDriver,
                                     !.err = r.err]

DoDeleteOne ==
    \E filter \in Filters, fault \in {Nil, ErrDriver} :
        LET r == DeleteOne(coll, filter, fault) IN
        /\ coll' = r.coll
        /\ last' = [Blank EXCEPT !.op = "DeleteOne", !.size0 = Len(coll), !.filter = filter,
                                 !.derr = fault, !.err = r.err]
        /\ UNCHANGED nextId

DoDeleteMany ==
    \E filter \in Filters, fault \in {Nil, ErrDriver} :
        LET r == DeleteMany(coll, filter, fault) IN
        /\ coll' = r.coll
        /\ last' = [Blank EXCEPT !.op = "DeleteMany", !.size0 = Len(coll), !.filter = filter,
                                 !.derr = fault, !.err = r.err]
        /\ UNCHANGED nextId

Next ==
    \/ DoDrop
    \/ DoFindOne
    \/ DoFindMany
    \/ DoUpdateOne
    \/ DoUpdateMany
    \/ DoInsertOne
    \/ DoInsertMany
    \/ DoDeleteOne
    \/ DoDeleteMany

Spec == Init /\ [][Next]_vars

\* ---------------------------------------------------------------- claims
\* The decodings FindMany is to deliver for filter, in the store's order.
Expected(c, filter) ==
    LET m == Matching(c, filter) IN [i \in 1..Len(m) |-> DecodeD(m[i])]

\* C1: whenever the driver call behind an operation reports an error e, the
\* operation returns to its caller, and returns exactly e.
C1_DriverErrorForwarded ==
    last.derr # Nil => (~last.panicked /\ last.err = last.derr)

\* C2: on every return of FindMany after a cursor was opened, cursor.Close
\* has been called exactly once.
C2_CursorClosedOnce ==
    (last.op = "FindMany" /\ last.opened) => last.closes = 1

\* C3: with no driver error, FindMany returns nil and adds to the caller's
\* sequence exactly the decodings of the N matching documents, in the store's
\* order, none skipped or duplicated.
C3_FindManyInOrder ==
    (last.op = "FindMany" /\ last.derr = Nil) =>
        /\ last.err = Nil
        /\ ~last.panicked
        /\ last.many = last.many0 \o Expected(coll, last.filter)
        /\ Len(last.many) - Len(last.many0) = Len(Matching(coll, last.filter))

\* C3 witness: an error-free FindMany into an empty sequence delivered two
\* different documents.
C3_Witness ==
    /\ last.op = "FindMany" /\ last.derr = Nil /\ last.err = Nil
    /\ last.many0 = <<>> /\ Len(last.many) = 2
    /\ last.many[1] # last.many[2]
    /\ last.many[1][2].Value # last.many[2][2].Value

\* C4: when the cursor fails after k documents were decoded, FindMany returns
\* a non-nil error and the caller's sequence holds exactly those k documents.
C4_CursorErrorReported ==
    (last.op = "FindMany" /\ last.fault.kind = "cursor") =>
        /\ last.err # Nil
        /\ last.many = last.many0 \o SubSeq(Expected(coll, last.filter), 1, last.fault.at)

\* C5 as stated: after a successful DeleteOne(filter), FindOne with the same
\* filter on the resulting collection returns the not-found error and decodes
\* nothing.
C5_DeleteOneThenFindOne ==
    (last.op = "DeleteOne" /\ last.err = Nil) =>
        \A res \in Structs :
            LET r == FindOne(coll, last.filter, res, Nil) IN
            r.err = ErrNoDocuments /\ r.res = res

\* C5 amended: when the filter matched at most one document, a successful
\* DeleteOne(filter) followed by FindOne with the same filter returns the
\* not-found error and decodes nothing.
C5_DeleteOneThenFindOneUnique ==
    [][(last'.op = "DeleteOne" /\ last'.err = Nil
            /\ Len(Matching(coll, last'.filter)) <= 1) =>
        \A res \in Structs :
            LET r == FindOne(coll', last'.filter, res, Nil) IN
            r.err = ErrNoDocuments /\ r.res = res]_vars

\* C5 witness: a successful DeleteOne by name removed the only matching
\* document, left another document behind, and FindOne no longer finds it.
C5_Witness ==
    /\ last.op = "DeleteOne" /\ last.err = Nil /\ last.filter.kind = "name"
    /\ Len(coll) = last.size0 - 1 /\ Len(coll) >= 1
    /\ FindOne(coll, last.filter, StaleStruct, Nil).err = ErrNoDocuments

\* C6: a successful DeleteMany(f) leaves nothing for FindMany(f) and leaves
\* FindMany(g) as it was for every filter g matching a disjoint set of
\* documents.
C6_DeleteManyFrame ==
    [][(last'.op = "DeleteMany" /\ last'.err = Nil) =>
        \A res \in Slices :
            /\ FindMany(coll', last'.filter, res, NoFault).res = res
            /\ FindMany(coll', last'.filter, res, NoFault).err = Nil
            /\ \A g \in Filters :
                  MatchIdx(coll, g) \cap MatchIdx(coll, last'.filter) = {} =>
                      FindMany(coll', g, res, NoFault) = FindMany(coll, g, res, NoFault)]_vars

\* C6 witness: the scenario a, a, b: DeleteMany(name = a) took two of three
\* documents; FindMany(name = a) is empty and FindMany(name = b) has one.
C6_Witness ==
    /\ last.op = "DeleteMany" /\ last.err = Nil /\ last.filter = FilterName("a")
    /\ last.size0 = 3 /\ Len(coll) = 1
    /\ FindMany(coll, FilterName("a"), <<>>, NoFault).res = <<>>
    /\ Len(FindMany(coll, FilterName("b"), <<>>, NoFault).res) = 1

\* Whether the step is a successful update by the wrapper.
UpdateStep == last'.op \in {"UpdateOne", "UpdateMany"} /\ last'.err = Nil

\* C7 as stated: UpdateOne and UpdateMany on a filter matching M documents
\* return matchedCount = M and modifiedCount <= matchedCount, with equality
\* when the update changes every matched document.
C7_UpdateCounts ==
    [][UpdateStep =>
        LET idx == MatchIdx(coll, last'.filter) IN
        /\ last'.matched = Cardinality(idx)
        /\ last'.modified <= last'.matched
        /\ (\A i \in idx : coll[i].name # last'.name) => last'.modified = last'.matched]_vars

\* C7 amended: UpdateMany returns matchedCount = M, UpdateOne returns
\* matchedCount = min(M, 1); both return modifiedCount <= matchedCount, with
\* equality when the update changes every document the operation matched.
C7_UpdateCountsPerOp ==
    [][UpdateStep =>
        LET idx == IF last'.op = "UpdateMany" THEN MatchIdx(coll, last'.filter)
                   ELSE FirstIdx(coll, last'.filter)
        IN
        /\ last'.matched = Cardinality(idx)
        /\ last'.op = "UpdateOne" =>
               last'.matched = (IF MatchIdx(coll, last'.filter) = {} THEN 0 ELSE 1)
        /\ last'.modified <= last'.matched
        /\ (\A i \in idx : coll[i].name # last'.name) => last'.modified = last'.matched]_vars

\* C7 witness: an UpdateMany over three documents matched all three and
\* modified only some of them.
C7_Witness ==
    /\ last.op = "UpdateMany" /\ last.err = Nil /\ last.filter = FilterAll
    /\ last.matched = 3 /\ last.modified = 2

\* C8: after a successful InsertOne(d) returning id, FindOne filtered on id
\* returns nil and decodes d, carrying id, into the caller's container.
C8_InsertThenFindRoundTrip ==
    (last.op = "InsertOne" /\ last.err = Nil) =>
        \A res \in Structs :
            LET r == FindOne(coll, FilterId(last.id), res, Nil) IN
            r.err = Nil /\ r.res = [ID |-> last.id, Name |-> last.name]

\* C8 witness: InsertOne into a collection already holding a document with
\* another name returned an identifier that FindOne resolves.
C8_Witness ==
    /\ last.op = "InsertOne" /\ last.err = Nil /\ last.id # NoId
    /\ last.size0 >= 1 /\ coll[1].name # last.name
    /\ FindOne(coll, FilterId(last.id), StaleStruct, Nil).res.Name = last.name

\* C9: a FindOne whose filter matches no document returns a non-nil error and
\* leaves the caller's container as it was.
C9_FindOneNoMatch ==
    (last.op = "FindOne" /\ Matching(coll, last.filter) = <<>>) =>
        last.err # Nil /\ last.one = last.one0

\* C9 witness: FindOne on a non-empty collection matched nothing and left a
\* used container untouched.
C9_Witness ==
    /\ last.op = "FindOne" /\ coll # <<>> /\ Matching(coll, last.filter) = <<>>
    /\ last.derr = ErrNoDocuments /\ last.one0 = StaleStruct /\ last.one = StaleStruct

\* C10: after a successful Drop, FindOne decodes no document and FindMany
\* adds no document, whatever the filter and whether or not the read fails.
C10_DropThenReadEmpty ==
    (last.op = "Drop" /\ last.err = Nil) =>
        \A filter \in Filters :
            /\ \A res \in Structs, fault \in {Nil, ErrDriver} :
                  LET r == FindOne(coll, filter, res, fault) IN
                  r.res = res /\ r.err = (IF fault = Nil THEN ErrNoDocuments ELSE fault)
            /\ \A res \in Slices, fault \in FindFaults(Len(Matching(coll, filter))) :
                  LET r == FindMany(coll, filter, res, fault) IN
                  r.res = res /\ (fault = NoFault => r.err = Nil)

\* C10 witness: a successful Drop of a collection that held documents.
C10_Witness ==
    /\ last.op = "Drop" /\ last.err = Nil /\ last.size0 >= 2
    /\ FindMany(coll, FilterAll, <<>>, NoFault).res = <<>>
====
